---- MODULE Spec2Model ----
(***************************************************************************)
(* Model of valorantGameAnalyzer (src/main.py): the record parser, the     *)
(* tiered interpolated scorer, and the orchestrator main() with its CSV    *)
(* result store.                                                           *)
(*                                                                         *)
(* Numbers are Python floats in the source.  They are modelled as exact    *)
(* rationals [t |-> "num", n, d] in lowest terms; float rounding error is  *)
(* outside the model.  A dict is a sequence of <<key, value>> pairs with   *)
(* unique keys, in insertion order, as Python dicts keep it.               *)
(***************************************************************************)
EXTENDS Integers, Sequences, FiniteSets, TLC

VARIABLES
    \* ---- scorer (calculate_score applied to two records) ----
    weights,        \* the weight table, as load_weights returns it
    data,           \* the record being scored
    data2,          \* a second record, scored against the same table
    result,         \* calculate_score(data, weights), or NotRun
    result2,        \* calculate_score(data2, weights), or NotRun
    \* ---- parser (Parser.parse on one file, line by line) ----
    lines,          \* the file's lines
    pos,            \* index of the next line to read
    pdata,          \* Parser.data
    pstatus,        \* "idle", "reading", "done", or the exception raised
    \* ---- orchestrator (runs of main) ----
    content_dir,    \* the input directory: file name -> lines
    output_file,    \* the output table: [exists, lines], a line a sequence of cells
    pc,             \* "idle" between runs, "loop" inside the file loop of main
    processed_files,\* main's skip-set
    todo,           \* what os.listdir returned, less the names already visited
    results,        \* main's results list
    run,            \* history of the current (or last) run
    hist            \* history of all runs

scoreVars == <<weights, data, data2, result, result2>>
parseVars == <<lines, pos, pdata, pstatus>>
mainVars == <<content_dir, output_file, pc, processed_files, todo, results, run, hist>>
vars == <<scoreVars, parseVars, mainVars>>

(***************************************************************************)
(* Values                                                                  *)
(***************************************************************************)
Abs(x) == IF x < 0 THEN -x ELSE x

RECURSIVE GCD(_, _)
GCD(a, b) == IF b = 0 THEN a ELSE GCD(b, a % b)

\* The float n/d (d # 0).
Num(n, d) ==
    LET g == GCD(Abs(n), Abs(d))
        s == IF d < 0 THEN -1 ELSE 1
    IN  [t |-> "num", n |-> (s * n) \div g, d |-> Abs(d) \div g]

Whole(n) == Num(n, 1)
Str(s) == [t |-> "str", s |-> s]
Bool(b) == [t |-> "bool", b |-> b]

FloatAdd(a, b) == Num(a.n * b.d + b.n * a.d, a.d * b.d)
FloatSub(a, b) == Num(a.n * b.d - b.n * a.d, a.d * b.d)
FloatMul(a, b) == Num(a.n * b.n, a.d * b.d)
FloatLt(a, b) == a.n * b.d < b.n * a.d
FloatGe(a, b) == a.n * b.d >= b.n * a.d

ZeroDivisionError == [t |-> "ZeroDivisionError"]
ValueError == [t |-> "ValueError"]

\* a / b on floats: raises ZeroDivisionError when b is 0.
FloatDiv(a, b) == IF b.n = 0 THEN ZeroDivisionError ELSE Num(a.n * b.d, a.d * b.n)

\* round(x, 2) and the format spec :.2f, on the exact value: the nearest
\* multiple of 1/100, a tie going to the even one.
Round2(x) ==
    LET q == (x.n * 100) \div x.d
        r == (x.n * 100) % x.d
        up == (2 * r > x.d) \/ (2 * r = x.d /\ q % 2 = 1)
    IN  Num(IF up THEN q + 1 ELSE q, 100)

\* float(v) for a value held in a record.
ToFloat(v) ==
    CASE v.t = "num" -> v
      [] v.t = "bool" -> IF v.b THEN Whole(1) ELSE Whole(0)
      [] OTHER -> ValueError

(***************************************************************************)
(* Dicts                                                                   *)
(***************************************************************************)
Keys(dict) == [i \in 1..Len(dict) |-> dict[i][1]]
KeySet(dict) == {dict[i][1] : i \in 1..Len(dict)}
Has(dict, k) == k \in KeySet(dict)
IndexOf(dict, k) == CHOOSE i \in 1..Len(dict) : dict[i][1] = k
Get(dict, k) == dict[IndexOf(dict, k)][2]
GetOr(dict, k, default) == IF Has(dict, k) THEN Get(dict, k) ELSE default
\* dict[k] = v: in place when k is a key already, else appended.
Put(dict, k, v) ==
    IF Has(dict, k)
    THEN [dict EXCEPT ![IndexOf(dict, k)] = <<k, v>>]
    ELSE Append(dict, <<k, v>>)

(***************************************************************************)
(* Record parser                                                           *)
(*                                                                         *)
(* A line of a file is [match, key, text]: match says whether the line has *)
(* the shape "<key>: <value>" of parse_line's pattern, key and text are    *)
(* the stripped groups.  The string functions of the source (float, int,   *)
(* lower, re.search, split) are given by their values on the texts the     *)
(* model's files hold.                                                     *)
(***************************************************************************)
NoMatchLine == [match |-> FALSE, key |-> "", text |-> ""]
KV(k, text) == [match |-> TRUE, key |-> k, text |-> text]

\* float(text), for the texts float() accepts.
FloatLiteral ==
    [x \in {"0", "5", "15", "99", "200", "1000", "1500"} |->
        CASE x = "0" -> Whole(0)
          [] x = "5" -> Whole(5)
          [] x = "15" -> Whole(15)
          [] x = "99" -> Whole(99)
          [] x = "200" -> Whole(200)
          [] x = "1000" -> Whole(1000)
          [] x = "1500" -> Whole(1500)]

\* text.lower() in ['true', 'false'], and the boolean it stands for.
BoolLiteral == [x \in {"true", "True", "false", "FALSE"} |-> x \in {"true", "True"}]

parse_value(text) ==
    IF text \in DOMAIN BoolLiteral THEN Bool(BoolLiteral[text])
    ELSE IF text \in DOMAIN FloatLiteral THEN FloatLiteral[text]
    ELSE Str(text)

\* parse_line: <<key, value>>, or <<>> for (None, None).
parse_line(line) ==
    IF line.match THEN <<line.key, parse_value(line.text)>> ELSE <<>>

\* re.search(r"\((\d+(?:\.\d+)?)%\)", s).group(1) as a float, for the
\* strings that hold the pattern.
PercentLiteral ==
    [x \in {"5 (37.5%)", "7 (50%)"} |->
        IF x = "5 (37.5%)" THEN Num(75, 2) ELSE Whole(50)]

\* s.split('-'), for the strings that hold a '-'; any other string splits
\* into itself.
SplitLiteral ==
    [x \in {"13-7", "7-13", "13-7-1"} |->
        CASE x = "13-7" -> <<"13", "7">>
          [] x = "7-13" -> <<"7", "13">>
          [] x = "13-7-1" -> <<"13", "7", "1">>]

split_dash(s) == IF s \in DOMAIN SplitLiteral THEN SplitLiteral[s] ELSE <<s>>

\* int(text), for the texts int() accepts.
IntLiteral == [x \in {"1", "7", "13"} |-> CASE x = "1" -> 1 [] x = "7" -> 7 [] x = "13" -> 13]

Raise(d, exc) == [data |-> d, error |-> exc]
Ok(d) == [data |-> d, error |-> "none"]

\* parse_special_key deriving nothing, instead of raising, from a Headshot
\* value without the percentage.
parse_special_key_lenient(d, key, value) ==
    IF key = "Headshot"
    THEN IF value.t # "str" \/ value.s \notin DOMAIN PercentLiteral THEN Ok(d)
         ELSE Ok(Put(d, "Headshot %", PercentLiteral[value.s]))
    ELSE IF key = "Score"
    THEN IF value.t # "str" THEN Raise(d, "AttributeError")
         ELSE LET parts == split_dash(value.s)
              IN  IF Len(parts) # 2 THEN Raise(d, "ValueError")
                  ELSE IF parts[1] \notin DOMAIN IntLiteral
                          \/ parts[2] \notin DOMAIN IntLiteral
                  THEN Raise(d, "ValueError")
                  ELSE Ok(Put(d, "Round Differential",
                              Whole(IntLiteral[parts[1]] - IntLiteral[parts[2]])))
    ELSE Ok(d)

parse_special_key(d, key, value) ==
    IF key = "Headshot"
    THEN IF value.t # "str" THEN Raise(d, "TypeError")
         ELSE IF value.s \notin DOMAIN PercentLiteral THEN Raise(d, "AttributeError")
         ELSE Ok(Put(d, "Headshot %", PercentLiteral[value.s]))
    ELSE IF key = "Score"
    THEN IF value.t # "str" THEN Raise(d, "AttributeError")
         ELSE LET parts == split_dash(value.s)
              IN  IF Len(parts) # 2 THEN Raise(d, "ValueError")
                  ELSE IF parts[1] \notin DOMAIN IntLiteral
                          \/ parts[2] \notin DOMAIN IntLiteral
                  THEN Raise(d, "ValueError")
                  ELSE Ok(Put(d, "Round Differential",
                              Whole(IntLiteral[parts[1]] - IntLiteral[parts[2]])))
    ELSE Ok(d)

\* One iteration of the line loop of Parser.parse.
ParseLineStep(d, line) ==
    LET kv == parse_line(line)
    IN  IF kv = <<>> \/ kv[1] = "" THEN Ok(d)
        ELSE LET special == parse_special_key(d, kv[1], kv[2])
             IN  IF special.error # "none" THEN special
                 ELSE IF ~Has(special.data, kv[1])
                 THEN Ok(Put(special.data, kv[1], kv[2]))
                 ELSE special

\* int(v) for a value held in a record: a float is truncated toward zero.
IntOf(v) ==
    CASE v.t = "num" -> Whole(IF v.n >= 0 THEN v.n \div v.d ELSE -((-v.n) \div v.d))
      [] v.t = "bool" -> IF v.b THEN Whole(1) ELSE Whole(0)
      [] OTHER -> ValueError

\* v != 0
NonZero(v) ==
    CASE v.t = "num" -> v.n # 0
      [] v.t = "bool" -> v.b
      [] OTHER -> TRUE

calculate_additional_metrics(d) ==
    LET withLength ==
            IF Has(d, "Start Time (UNIX)") /\ Has(d, "End Time (UNIX)")
            THEN LET e == IntOf(Get(d, "End Time (UNIX)"))
                     b == IntOf(Get(d, "Start Time (UNIX)"))
                 IN  IF e = ValueError \/ b = ValueError THEN Raise(d, "ValueError")
                     ELSE Ok(Put(d, "Length", FloatSub(e, b)))
            ELSE Ok(d)
        d1 == withLength.data
    IN  IF withLength.error # "none" THEN withLength
        ELSE IF Has(d1, "Damage Made") /\ Has(d1, "Damage Received")
                /\ NonZero(Get(d1, "Damage Received"))
        THEN LET made == Get(d1, "Damage Made")
                 received == Get(d1, "Damage Received")
             IN  IF made.t = "str" \/ received.t = "str" THEN Raise(d1, "TypeError")
                 ELSE Ok(Put(d1, "Damage Ratio",
                             FloatDiv(ToFloat(made), ToFloat(received))))
        ELSE Ok(d1)

\* The line loop of Parser.parse from line i on; ParseNext goes on from
\* what the iteration on line i left.
RECURSIVE ParseFrom(_, _, _)
RECURSIVE ParseNext(_, _, _)
ParseFrom(ls, i, d) ==
    IF i > Len(ls) THEN Ok(d) ELSE ParseNext(ls, i, ParseLineStep(d, ls[i]))

ParseNext(ls, i, step) ==
    IF step.error # "none" THEN step ELSE ParseFrom(ls, i + 1, step.data)

\* The end of Parser.parse, the line loop having left `read`.
ParseEnd(read) ==
    IF read.error # "none" THEN read ELSE calculate_additional_metrics(read.data)

\* Parser(file).parse()
parse(ls) == ParseEnd(ParseFrom(ls, 1, <<>>))

(***************************************************************************)
(* Weight table loader                                                     *)
(***************************************************************************)
\* load_weights on the data rows <<metric, target, bonus>> of the file.
RECURSIVE load_weights_from(_, _)
load_weights_from(rows, w) ==
    IF rows = <<>> THEN w
    ELSE LET row == Head(rows)
             tier == <<Whole(row[2]), Whole(row[3])>>
         IN  load_weights_from(Tail(rows),
                 Put(w, row[1], Append(GetOr(w, row[1], <<>>), tier)))

load_weights(rows) == load_weights_from(rows, <<>>)

(***************************************************************************)
(* Scorer                                                                  *)
(***************************************************************************)
calculate_interpolated_bonus(value, lower_bound, upper_bound, lower_bonus, upper_bonus) ==
    IF lower_bound = upper_bound THEN lower_bonus
    ELSE LET q == FloatDiv(FloatSub(value, lower_bound),
                           FloatSub(upper_bound, lower_bound))
         IN  IF q = ZeroDivisionError THEN ZeroDivisionError
             ELSE FloatAdd(lower_bonus, FloatMul(FloatSub(upper_bonus, lower_bonus), q))

\* sorted(tiers, key=lambda x: x[0]): stable insertion of each tier after
\* the tiers whose target is not larger.
\* An unstable sort: a tier goes before the tiers of equal target.
RECURSIVE InsertTier_before_equal(_, _)
InsertTier_before_equal(sorted, tier) ==
    IF sorted = <<>> THEN <<tier>>
    ELSE IF ~FloatLt(Head(sorted)[1], tier[1]) THEN <<tier>> \o sorted
    ELSE <<Head(sorted)>> \o InsertTier_before_equal(Tail(sorted), tier)

RECURSIVE InsertTier(_, _)
InsertTier(sorted, tier) ==
    IF sorted = <<>> THEN <<tier>>
    ELSE IF FloatLt(tier[1], Head(sorted)[1]) THEN <<tier>> \o sorted
    ELSE <<Head(sorted)>> \o InsertTier(Tail(sorted), tier)

RECURSIVE SortTiers(_, _)
SortTiers(tiers, acc) ==
    IF tiers = <<>> THEN acc
    ELSE SortTiers(Tail(tiers), InsertTier(acc, Head(tiers)))

\* The tiers as listed, not sorted.
sorted_by_target_unsorted(tiers) == tiers

sorted_by_target(tiers) == SortTiers(tiers, <<>>)

\* What one metric's tier scan ends with.
NoBonus == [kind |-> "none", bonus |-> Whole(0), entries |-> <<>>, calls |-> <<>>]

\* One iteration (index i, from 1) of the tier loop of calculate_score:
\* an outcome when the iteration breaks, Continue when it falls through.
Continue == [kind |-> "continue"]

\* The loop body with `metric_value <= next_target` for the strict test.
TierStep_inclusive(metric, metric_value, sorted_tiers, i) ==
    LET target == sorted_tiers[i][1]
        bonus == sorted_tiers[i][2]
    IN  IF FloatGe(metric_value, target)
        THEN IF i + 1 <= Len(sorted_tiers)
             THEN LET next_target == sorted_tiers[i + 1][1]
                      next_bonus == sorted_tiers[i + 1][2]
                      interpolated_bonus ==
                          calculate_interpolated_bonus(metric_value, target,
                              next_target, bonus, next_bonus)
                  IN  IF ~FloatLt(next_target, metric_value)
                      THEN [kind |-> "interp", bonus |-> interpolated_bonus,
                            entries |-> <<[kind |-> "interp", metric |-> metric,
                                           value |-> metric_value, tier |-> <<>>,
                                           bonus |-> Round2(interpolated_bonus)]>>,
                            calls |-> <<<<metric_value, target, next_target,
                                         bonus, next_bonus>>>>]
                      ELSE Continue
             ELSE [kind |-> "tier", bonus |-> bonus,
                   entries |-> <<[kind |-> "tier", metric |-> metric,
                                  value |-> metric_value, tier |-> <<target, bonus>>,
                                  bonus |-> bonus]>>,
                   calls |-> <<>>]
        ELSE IF i = 1 /\ FloatLt(metric_value, target) THEN NoBonus
        ELSE Continue

TierStep(metric, metric_value, sorted_tiers, i) ==
    LET target == sorted_tiers[i][1]
        bonus == sorted_tiers[i][2]
    IN  IF FloatGe(metric_value, target)
        THEN IF i + 1 <= Len(sorted_tiers)
             THEN LET next_target == sorted_tiers[i + 1][1]
                      next_bonus == sorted_tiers[i + 1][2]
                      interpolated_bonus ==
                          calculate_interpolated_bonus(metric_value, target,
                              next_target, bonus, next_bonus)
                  IN  IF FloatLt(metric_value, next_target)
                      THEN IF interpolated_bonus = ZeroDivisionError
                           THEN [kind |-> "ZeroDivisionError", bonus |-> Whole(0),
                                 entries |-> <<>>,
                                 calls |-> <<<<metric_value, target, next_target,
                                              bonus, next_bonus>>>>]
                           ELSE [kind |-> "interp", bonus |-> interpolated_bonus,
                                 entries |-> <<[kind |-> "interp", metric |-> metric,
                                                value |-> metric_value, tier |-> <<>>,
                                                bonus |-> Round2(interpolated_bonus)]>>,
                                 calls |-> <<<<metric_value, target, next_target,
                                              bonus, next_bonus>>>>]
                      ELSE Continue
             ELSE [kind |-> "tier", bonus |-> bonus,
                   entries |-> <<[kind |-> "tier", metric |-> metric,
                                  value |-> metric_value, tier |-> <<target, bonus>>,
                                  bonus |-> bonus]>>,
                   calls |-> <<>>]
        ELSE IF i = 1 /\ FloatLt(metric_value, target) THEN NoBonus
        ELSE Continue

\* The tier loop from index i on.
RECURSIVE ScanTiers(_, _, _, _)
ScanTiers(metric, metric_value, sorted_tiers, i) ==
    IF i > Len(sorted_tiers) THEN NoBonus
    ELSE LET step == TierStep(metric, metric_value, sorted_tiers, i)
         IN  IF step = Continue
             THEN ScanTiers(metric, metric_value, sorted_tiers, i + 1)
             ELSE step

\* data.get(metric, 1)
MetricGet_default_one(record, metric) == GetOr(record, metric, Whole(1))

\* data.get(metric, 0)
MetricGet(record, metric) == GetOr(record, metric, Whole(0))

\* One iteration of the metric loop of calculate_score.
MetricOutcome(record, metric, tiers) ==
    LET metric_value == ToFloat(MetricGet(record, metric))
    IN  IF metric_value = ValueError
        THEN [kind |-> "ValueError", bonus |-> Whole(0), entries |-> <<>>, calls |-> <<>>]
        ELSE ScanTiers(metric, metric_value, sorted_by_target(tiers), 1)

\* The metric loop from index m on; acc holds score, score_breakdown, and
\* the arguments of every call of calculate_interpolated_bonus made so far.
RECURSIVE ScoreFrom(_, _, _, _)
ScoreFrom(record, w, m, acc) ==
    IF m > Len(w) THEN acc
    ELSE LET o == MetricOutcome(record, w[m][1], w[m][2])
         IN  IF o.kind \in {"ValueError", "ZeroDivisionError"}
             THEN [acc EXCEPT !.error = o.kind, !.calls = @ \o o.calls]
             ELSE ScoreFrom(record, w, m + 1,
                     [acc EXCEPT !.score = FloatAdd(@, o.bonus),
                                 !.score_breakdown = @ \o o.entries,
                                 !.calls = @ \o o.calls,
                                 !.awards = Append(@, <<w[m][1], o.kind, o.bonus>>)])

calculate_score(record, w) ==
    LET acc == ScoreFrom(record, w, 1,
                   [score |-> Whole(0), score_breakdown |-> <<>>, calls |-> <<>>,
                    awards |-> <<>>, error |-> "none"])
    IN  [acc EXCEPT !.score = Round2(@)]

(***************************************************************************)
(* Result store and orchestrator                                           *)
(*                                                                         *)
(* A cell of the output table is the text the csv writer wrote for a       *)
(* value.  The text of a float holds digits, '.', '-', 'e', 'inf' or 'nan' *)
(* only, so it is kept as the float it was written from and differs from   *)
(* every Str cell; the Log text is kept as the breakdown it joins.         *)
(***************************************************************************)
NoneCell == [t |-> "None"]

CsvText(v) ==
    CASE v.t = "str" -> v
      [] v.t = "num" -> [t |-> "floattext", n |-> v.n, d |-> v.d]
      [] v.t = "bool" -> Str(IF v.b THEN "True" ELSE "False")
      [] v.t = "log" -> IF v.entries = <<>> THEN Str("")
                        ELSE [t |-> "logtext", entries |-> v.entries]

\* '; '.join(score_breakdown)
JoinLog(score_breakdown) == [t |-> "log", entries |-> score_breakdown]

MissingFile == [exists |-> FALSE, lines |-> <<>>]

\* The position of a field name in the header line, 0 when absent.
HeaderIndex(header, name) ==
    IF \E i \in 1..Len(header) : header[i] = Str(name)
    THEN CHOOSE i \in 1..Len(header) : header[i] = Str(name)
    ELSE 0

\* row['Filename'] of the DictReader row of one line: the cell under the
\* header's Filename column, None (restval) when the line is shorter.
RowFilename(header, line) ==
    LET i == HeaderIndex(header, "Filename")
    IN  IF i <= Len(line) THEN line[i] ELSE NoneCell

\* load_existing_results(output_file).keys(); KeyError when the rows have
\* no Filename key.
load_existing_results(file) ==
    IF ~file.exists \/ Len(file.lines) <= 1 THEN [keys |-> {}, error |-> "none"]
    ELSE IF HeaderIndex(file.lines[1], "Filename") = 0
    THEN [keys |-> {}, error |-> "KeyError"]
    ELSE [keys |-> {RowFilename(file.lines[1], file.lines[i]) : i \in 2..Len(file.lines)},
          error |-> "none"]

\* filename.endswith(".md"), on the file names of the model.
MdNames == {"a.md", "b.md"}
OtherNames == {"notes.txt"}
endswith_md(filename) == filename \in MdNames

\* DictWriter._dict_to_list: the keys of a result that are no field names
\* (it raises ValueError when there are any), and the cells it returns.
wrong_fields(fieldnames, rowdict) ==
    KeySet(rowdict) \ {fieldnames[i] : i \in 1..Len(fieldnames)}

dict_to_list(fieldnames, rowdict) ==
    [i \in 1..Len(fieldnames) |-> CsvText(GetOr(rowdict, fieldnames[i], Str("")))]

\* DictWriter.writeheader
HeaderLine(fieldnames) == [i \in 1..Len(fieldnames) |-> Str(fieldnames[i])]

\* DictWriter.writerows: the lines written, one per result, up to the
\* first result _dict_to_list raises on.
RECURSIVE writerows(_, _)
writerows(fieldnames, rowdicts) ==
    IF rowdicts = <<>> THEN [lines |-> <<>>, error |-> "none"]
    ELSE IF wrong_fields(fieldnames, Head(rowdicts)) # {}
    THEN [lines |-> <<>>, error |-> "ValueError"]
    ELSE LET rest == writerows(fieldnames, Tail(rowdicts))
         IN  [lines |-> <<dict_to_list(fieldnames, Head(rowdicts))>> \o rest.lines,
              error |-> rest.error]

\* The header written by every run that appends.
HeaderDue_always(skip) == TRUE

\* `if not processed_files`: the header is due.
HeaderDue(skip) == skip = {}

\* Lines 117-121 of main: the record tagged with Score, Log and Filename,
\* or the exception calculate_score raised.
TagResult(filename, d, scored) ==
    IF scored.error # "none"
    THEN [error |-> scored.error, by |-> "score", data |-> <<>>]
    ELSE [error |-> "none", by |-> "",
          data |-> Put(Put(Put(d, "Score", scored.score),
                           "Log", JoinLog(scored.score_breakdown)),
                       "Filename", Str(filename))]

\* Lines 116-121 of main, parse having returned or raised `parsed`.
ScoreParsed(filename, parsed, w) ==
    IF parsed.error # "none"
    THEN [error |-> parsed.error, by |-> "parse", data |-> <<>>]
    ELSE TagResult(filename, parsed.data, calculate_score(parsed.data, w))

\* The body of main's file loop for one candidate file: the result dict,
\* or the exception parse or calculate_score raised.
ProcessOne(filename, ls, w) == ScoreParsed(filename, parse(ls), w)

(***************************************************************************)
(* Bounds and input sets                                                   *)
(***************************************************************************)
MaxTiers == 3
MaxRows == 2

TargetSet == {0, 10, 20}
BonusSet == {0, 5, 8, 10}
ValueSet == {-1, 0, 5, 10, 15, 20, 25}
MetricSet == {"Kills", "Deaths"}

MaxLines == 3
MaxRuns == 3

SeqsUpTo(S, n) == UNION {[1..k -> S] : k \in 1..n}

\* Records over two weight-table metrics and a field no table names.
KillsValues == {Whole(0), Whole(5)}
DeathsValues == {Whole(0)}
AssistsValues == {Whole(7)}

FieldChoices(k, values) == {<<>>} \cup {<<<<k, v>>>> : v \in values}

RecordSet ==
    {a \o b \o c : a \in FieldChoices("Kills", KillsValues),
                   b \in FieldChoices("Deaths", DeathsValues),
                   c \in FieldChoices("Assists", AssistsValues)}

NotRun == [error |-> "not run"]

(***************************************************************************)
(* Initial values of the parts a specification leaves alone                *)
(***************************************************************************)
InitScoreIdle ==
    /\ weights = <<>>
    /\ data = <<>>
    /\ data2 = <<>>
    /\ result = NotRun
    /\ result2 = NotRun

InitParseIdle ==
    /\ lines = <<>>
    /\ pos = 1
    /\ pdata = <<>>
    /\ pstatus = "idle"

\* The history of one run: the listing os.listdir returned, the files the
\* loop body was entered for, the table and skip-set the run started with,
\* whether it wrote the header, the files it appended a row for, how it
\* ended ("none" while it runs, "ok", or the exception) and where, whether
\* it reruns a completed run on an unchanged directory, and the files that
\* run had appended rows for.
NoRun ==
    [listing |-> <<>>, candidates |-> <<>>, table_at_start |-> MissingFile,
     skip_at_start |-> {}, header_written |-> FALSE, appended |-> <<>>,
     exit |-> "none", by |-> "", rerun |-> FALSE, prev_appended |-> <<>>]

InitMainIdle ==
    /\ content_dir = [f \in {} |-> <<>>]
    /\ output_file = MissingFile
    /\ pc = "idle"
    /\ processed_files = {}
    /\ todo = <<>>
    /\ results = <<>>
    /\ run = NoRun
    \* runs: the runs started; header_lines: the line numbers writeheader
    \* wrote at; row_source: per line of the table, "header" or the file the
    \* row was written for; scored: the files calculate_score returned for;
    \* settled: the last run completed and no file has arrived since;
    \* last_appended: the files the last run appended rows for.
    /\ hist = [runs |-> 0, header_lines |-> <<>>, row_source |-> <<>>,
               scored |-> <<>>, settled |-> FALSE, last_appended |-> <<>>]

(***************************************************************************)
(* Scoring: calculate_score applied to the records of the initial state    *)
(***************************************************************************)
\* One metric, any tier list, any value.
TierValues ==
    {Whole(v) : v \in ValueSet} \cup {Str("many"), Bool(TRUE)}

InitTier ==
    /\ \E rows \in SeqsUpTo({"Kills"} \X TargetSet \X BonusSet, MaxTiers) :
           weights = load_weights(rows)
    /\ data \in FieldChoices("Kills", TierValues)
    /\ data2 = data
    /\ result = NotRun
    /\ result2 = NotRun
    /\ InitParseIdle
    /\ InitMainIdle

\* Two metrics, two records over the metrics and a field no table names.
InitScore ==
    /\ \E rows \in SeqsUpTo(MetricSet \X TargetSet \X BonusSet, MaxRows) :
           weights = load_weights(rows)
    /\ data \in RecordSet
    /\ data2 \in RecordSet
    /\ result = NotRun
    /\ result2 = NotRun
    /\ InitParseIdle
    /\ InitMainIdle

Score ==
    /\ result = NotRun
    /\ result' = calculate_score(data, weights)
    /\ result2' = calculate_score(data2, weights)
    /\ UNCHANGED <<weights, data, data2, parseVars, mainVars>>

NextScore == Score

SpecTier == InitTier /\ [][NextScore]_vars
SpecScore == InitScore /\ [][NextScore]_vars

(***************************************************************************)
(* Claims about the scorer                                                 *)
(***************************************************************************)
\* The tiers of the only metric of a one-metric table, as listed.
ListedTiers == weights[1][2]
TierSet == {ListedTiers[i] : i \in 1..Len(ListedTiers)}
DistinctTargets ==
    \A i, j \in 1..Len(ListedTiers) : i # j => ListedTiers[i][1] # ListedTiers[j][1]

\* The record's value of the metric is a number, absent counting as 0.
NumericValue == ToFloat(GetOr(data, "Kills", Whole(0))) # ValueError
TheValue == ToFloat(GetOr(data, "Kills", Whole(0)))

TiersAtOrBelow == {t \in TierSet : ~FloatLt(TheValue, t[1])}
TiersAbove == {t \in TierSet : FloatLt(TheValue, t[1])}
NearestBelow == CHOOSE t \in TiersAtOrBelow : \A u \in TiersAtOrBelow : ~FloatLt(t[1], u[1])
NearestAbove == CHOOSE t \in TiersAbove : \A u \in TiersAbove : ~FloatLt(u[1], t[1])

\* b_i + (b_i+1 - b_i) * (v - t_i) / (t_i+1 - t_i), the targets, bonuses and
\* value being whole numbers here.
PiecewiseLinear ==
    LET lo == NearestBelow
        hi == NearestAbove
        width == hi[1].n - lo[1].n
    IN  Num(lo[2].n * width + (hi[2].n - lo[2].n) * (TheValue.n - lo[1].n), width)

ExampleTiers == {<<Whole(0), Whole(0)>>, <<Whole(10), Whole(5)>>, <<Whole(20), Whole(10)>>}

\* C1: with pairwise distinct targets and a numeric value v, the metric is
\* awarded 0 and no breakdown entry when v is below every target, the
\* highest tier's bonus when v is at or above the highest target, and else
\* the bonus interpolated linearly between the two tiers whose targets
\* enclose v; the award depends on the set of tiers only, not on the order
\* they are listed in; with tiers (0,0),(10,5),(20,10) the values 5, 15, 25
\* and -1 yield 2.5, 7.5, 10 and 0.
C1_PiecewiseLinearBonus ==
    (result # NotRun /\ DistinctTargets /\ NumericValue) =>
        /\ result.error = "none"
        /\ Len(result.awards) = 1
        /\ IF TiersAtOrBelow = {}
           THEN /\ result.awards[1] = <<"Kills", "none", Whole(0)>>
                /\ result.score_breakdown = <<>>
                /\ result.score = Whole(0)
           ELSE IF TiersAbove = {}
           THEN /\ result.awards[1] = <<"Kills", "tier", NearestBelow[2]>>
                /\ Len(result.score_breakdown) = 1
                /\ result.score = Round2(NearestBelow[2])
           ELSE /\ result.awards[1] = <<"Kills", "interp", PiecewiseLinear>>
                /\ Len(result.score_breakdown) = 1
                /\ result.score = Round2(PiecewiseLinear)
        /\ TierSet = ExampleTiers =>
              /\ TheValue = Whole(5) => result.awards[1][3] = Num(5, 2)
              /\ TheValue = Whole(15) => result.awards[1][3] = Num(15, 2)
              /\ TheValue = Whole(25) => result.awards[1][3] = Whole(10)
              /\ TheValue = Whole(-1) =>
                     result.awards[1][3] = Whole(0) /\ result.score_breakdown = <<>>

\* The example table listed out of order, scored at 15: bonus 7.5.
C1_Witness ==
    /\ result # NotRun
    /\ ListedTiers = <<<<Whole(20), Whole(10)>>, <<Whole(0), Whole(0)>>, <<Whole(10), Whole(5)>>>>
    /\ TheValue = Whole(15)
    /\ result.awards = <<<<"Kills", "interp", Num(15, 2)>>>>

DuplicateExample == <<<<Whole(10), Whole(5)>>, <<Whole(10), Whole(8)>>>>

\* The tiers that share the highest target, in the order listed.
HighestTarget == CHOOSE t \in {x[1] : x \in TierSet} : \A u \in TierSet : ~FloatLt(t, u[1])
LastListedAtHighest ==
    ListedTiers[CHOOSE i \in 1..Len(ListedTiers) :
                    /\ ListedTiers[i][1] = HighestTarget
                    /\ \A j \in (i + 1)..Len(ListedTiers) : ListedTiers[j][1] # HighestTarget]

\* C2 as stated: with tiers [(10,5),(10,8)] a value that reaches the target
\* 10 is awarded the first-defined tier's bonus, 5, through the equal-target
\* rule of the interpolation, and scoring never divides by zero.
C2_LowerBonusAwarded ==
    (result # NotRun /\ ListedTiers = DuplicateExample /\ NumericValue
        /\ FloatGe(TheValue, Whole(10))) =>
        /\ result.error # "ZeroDivisionError"
        /\ result.awards = <<<<"Kills", "interp", Whole(5)>>>>

\* C2, amended: when several tiers share the highest target and the value
\* reaches it, the metric is awarded the bonus of the last-defined of them,
\* as the flat top-tier bonus (8 for [(10,5),(10,8)]); scoring never calls
\* the interpolation with equal targets, and never divides by zero.
C2_LastListedBonusAwarded ==
    (result # NotRun /\ NumericValue) =>
        /\ result.error # "ZeroDivisionError"
        /\ \A c \in 1..Len(result.calls) : result.calls[c][2] # result.calls[c][3]
        /\ FloatGe(TheValue, HighestTarget) =>
               result.awards = <<<<"Kills", "tier", LastListedAtHighest[2]>>>>
        /\ (ListedTiers = DuplicateExample /\ FloatGe(TheValue, Whole(10))) =>
               result.awards = <<<<"Kills", "tier", Whole(8)>>>>

\* [(10,5),(10,8)] scored at exactly 10: bonus 8.
C2_Witness ==
    /\ result # NotRun
    /\ ListedTiers = DuplicateExample
    /\ TheValue = Whole(10)
    /\ result.awards = <<<<"Kills", "tier", Whole(8)>>>>
    /\ result.calls = <<>>

\* The two records agree on a metric: both hold the same value, or neither
\* holds it, or one holds 0 and the other omits it.
AgreeOn(metric) ==
    \/ Has(data, metric) /\ Has(data2, metric) /\ Get(data, metric) = Get(data2, metric)
    \/ ~Has(data, metric) /\ ~Has(data2, metric)
    \/ Has(data, metric) /\ ~Has(data2, metric) /\ Get(data, metric) = Whole(0)
    \/ ~Has(data, metric) /\ Has(data2, metric) /\ Get(data2, metric) = Whole(0)

AgreeOnTable == \A m \in 1..Len(weights) : AgreeOn(weights[m][1])

\* C9: two records that agree on every metric of the weight table (an
\* absent metric counting as 0) get the same total score and the same
\* breakdown, whatever else either record holds.
C9_ScoreDependsOnTableMetricsOnly ==
    (result # NotRun /\ AgreeOnTable) =>
        /\ result.error = result2.error
        /\ result.score = result2.score
        /\ result.score_breakdown = result2.score_breakdown

\* Two different records, one omitting Kills where the other holds 0 and
\* only one holding Assists, scored to the same non-empty breakdown.
C9_Witness ==
    /\ result # NotRun
    /\ AgreeOnTable
    /\ Has(data, "Kills") /\ ~Has(data2, "Kills")
    /\ ~Has(data, "Assists") /\ Has(data2, "Assists")
    /\ \E m \in 1..Len(weights) : weights[m][1] = "Kills"
    /\ result.score_breakdown # <<>>
    /\ result.score_breakdown = result2.score_breakdown

IsInterp(award) == award[2] = "interp"
InterpAwards == SelectSeq(result.awards, IsInterp)

RECURSIVE SumBonuses(_)
SumBonuses(awards) ==
    IF awards = <<>> THEN Whole(0)
    ELSE FloatAdd(Head(awards)[3], SumBonuses(Tail(awards)))

Between(x, a, b) ==
    \/ FloatGe(x, a) /\ FloatGe(b, x)
    \/ FloatGe(x, b) /\ FloatGe(a, x)

\* C10: every call of calculate_interpolated_bonus made by calculate_score
\* has lower_bound <= value < upper_bound, and the bonus it awards lies
\* between the two tiers' bonuses; each metric of the weight table adds at
\* most one bonus to the total and at most one breakdown entry, in the
\* order of the weight table.
C10_CallsWithinTiersOneAwardPerMetric ==
    (result # NotRun /\ result.error = "none") =>
        /\ \A c \in 1..Len(result.calls) :
               /\ FloatGe(result.calls[c][1], result.calls[c][2])
               /\ FloatLt(result.calls[c][1], result.calls[c][3])
        /\ Len(InterpAwards) = Len(result.calls)
        /\ \A c \in 1..Len(result.calls) :
               Between(InterpAwards[c][3], result.calls[c][4], result.calls[c][5])
        /\ Len(result.awards) = Len(weights)
        /\ \A m \in 1..Len(weights) : result.awards[m][1] = weights[m][1]
        /\ result.score = Round2(SumBonuses(result.awards))
        /\ Len(result.score_breakdown) <= Len(weights)
        /\ \A i, j \in 1..Len(result.score_breakdown) :
               i < j => IndexOf(weights, result.score_breakdown[i].metric)
                            < IndexOf(weights, result.score_breakdown[j].metric)
        /\ \A i \in 1..Len(result.score_breakdown) :
               result.awards[IndexOf(weights, result.score_breakdown[i].metric)][2]
                   = result.score_breakdown[i].kind

\* A two-tier metric scored strictly between its targets: one call.
C10_Witness ==
    /\ result # NotRun
    /\ Len(result.calls) = 1
    /\ FloatLt(result.calls[1][2], result.calls[1][1])
    /\ FloatLt(result.calls[1][1], result.calls[1][3])
    /\ result.calls[1][4] # result.calls[1][5]

\* Two metrics, each awarded a bonus: two breakdown entries.
C10_TwoMetricsAwarded ==
    /\ result # NotRun
    /\ Len(weights) = 2
    /\ Len(result.score_breakdown) = 2

(***************************************************************************)
(* Parsing: Parser.parse on one file, one line per step                    *)
(***************************************************************************)
LinePool ==
    {NoMatchLine,
     KV("Headshot", "5 (37.5%)"), KV("Headshot", "7 (50%)"), KV("Headshot", "5"),
     KV("Headshot %", "99"),
     KV("Score", "13-7"), KV("Score", "7-13"), KV("Score", "13-7-1"),
     KV("Round Differential", "0"),
     KV("Start Time (UNIX)", "1000"), KV("End Time (UNIX)", "1500"),
     KV("Damage Made", "200"), KV("Damage Received", "0"),
     KV("Damage Received", "5"), KV("Damage Received", "n/a")}

InitParse ==
    /\ lines \in SeqsUpTo(LinePool, MaxLines)
    /\ pos = 1
    /\ pdata = <<>>
    /\ pstatus = "reading"
    /\ InitScoreIdle
    /\ InitMainIdle

\* One iteration of `for line in file`.
ParseLine ==
    /\ pstatus = "reading"
    /\ pos <= Len(lines)
    /\ LET step == ParseLineStep(pdata, lines[pos])
       IN  /\ pdata' = step.data
           /\ pstatus' = IF step.error = "none" THEN "reading" ELSE step.error
    /\ pos' = pos + 1
    /\ UNCHANGED <<lines, scoreVars, mainVars>>

\* The end of the loop: calculate_additional_metrics, and the return.
FinishParse ==
    /\ pstatus = "reading"
    /\ pos > Len(lines)
    /\ LET done == calculate_additional_metrics(pdata)
       IN  /\ pdata' = done.data
           /\ pstatus' = IF done.error = "none" THEN "done" ELSE done.error
    /\ UNCHANGED <<lines, pos, scoreVars, mainVars>>

NextParse == ParseLine \/ FinishParse

SpecParse == InitParse /\ [][NextParse]_vars

(***************************************************************************)
(* Runs of main, with files arriving in the input directory between runs   *)
(***************************************************************************)
\* weights.csv: the data rows of the weight file the runs read.
WeightsFile == <<<<"Kills", 0, 0>>, <<"Kills", 10, 5>>, <<"Kills", 20, 10>>>>

\* What an arriving file may hold.
FileShapes ==
    {<<KV("Kills", "15")>>,
     <<KV("Kills", "5"), KV("Deaths", "5")>>,
     <<NoMatchLine>>,
     <<KV("Headshot", "5 (37.5%)"), KV("Kills", "5")>>,
     <<KV("Kills", "5"), KV("Headshot", "n/a")>>,
     <<KV("Kills", "many")>>}

\* The orders os.listdir may return the names of a directory in.
Listings(names) ==
    {order \in [1..Cardinality(names) -> names] :
        \A i, j \in 1..Cardinality(names) : i # j => order[i] # order[j]}

Init ==
    /\ InitScoreIdle
    /\ InitParseIdle
    /\ InitMainIdle

\* A new file appears in the input directory while no run is under way.
Arrive ==
    /\ pc = "idle"
    /\ \E f \in (MdNames \cup OtherNames) \ DOMAIN content_dir, ls \in FileShapes :
           content_dir' = [g \in DOMAIN content_dir \cup {f} |->
                              IF g = f THEN ls ELSE content_dir[g]]
    /\ hist' = [hist EXCEPT !.settled = FALSE]
    /\ UNCHANGED <<output_file, pc, processed_files, todo, results, run,
                   scoreVars, parseVars>>

\* main up to the file loop: load_weights, load_existing_results, listdir.
StartRun ==
    /\ pc = "idle"
    /\ hist.runs < MaxRuns
    /\ weights' = load_weights(WeightsFile)
    /\ \E loaded \in {load_existing_results(output_file)} :
           /\ processed_files' = loaded.keys
           /\ results' = <<>>
           /\ IF loaded.error # "none"
              THEN /\ pc' = "idle"
                   /\ todo' = <<>>
                   /\ run' = [NoRun EXCEPT !.table_at_start = output_file,
                                           !.exit = loaded.error, !.by = "load",
                                           !.rerun = hist.settled,
                                           !.prev_appended = hist.last_appended]
                   /\ hist' = [hist EXCEPT !.runs = @ + 1, !.settled = FALSE]
              ELSE /\ pc' = "loop"
                   /\ todo' \in Listings(DOMAIN content_dir)
                   /\ run' = [NoRun EXCEPT !.listing = todo',
                                           !.table_at_start = output_file,
                                           !.skip_at_start = loaded.keys,
                                           !.rerun = hist.settled,
                                           !.prev_appended = hist.last_appended]
                   /\ hist' = [hist EXCEPT !.runs = @ + 1]
    /\ UNCHANGED <<content_dir, output_file, data, data2, result, result2, parseVars>>

\* One iteration of `for filename in os.listdir(content_dir)`.  An
\* exception of parse or calculate_score leaves main: the run is over.
ProcessFile ==
    /\ pc = "loop"
    /\ todo # <<>>
    /\ LET filename == Head(todo)
       IN  IF endswith_md(filename) /\ Str(filename) \notin processed_files
           THEN \E r \in {ProcessOne(filename, content_dir[filename], weights)} :
                    IF r.error # "none"
                    THEN /\ pc' = "idle"
                         /\ results' = results
                         /\ run' = [run EXCEPT !.candidates = Append(@, filename),
                                               !.exit = r.error, !.by = r.by]
                         /\ hist' = [hist EXCEPT !.settled = FALSE]
                    ELSE /\ pc' = "loop"
                         /\ results' = Append(results, r.data)
                         /\ run' = [run EXCEPT !.candidates = Append(@, filename)]
                         /\ hist' = [hist EXCEPT !.scored = Append(@, filename)]
           ELSE UNCHANGED <<pc, results, run, hist>>
    /\ todo' = Tail(todo)
    /\ UNCHANGED <<content_dir, output_file, processed_files, scoreVars, parseVars>>

\* main after the loop: the batch append, and the end of the run.  The
\* file is closed on every exit of the with block, so what writerows wrote
\* before it raised is in the file.
WriteResults ==
    /\ pc = "loop"
    /\ todo = <<>>
    /\ pc' = "idle"
    /\ IF results # <<>>
       THEN \E header \in {IF HeaderDue(processed_files)
                             THEN <<HeaderLine(Keys(results[1]))>> ELSE <<>>},
               written \in {writerows(Keys(results[1]), results)} :
            LET names == [i \in 1..Len(written.lines) |-> Get(results[i], "Filename").s]
            IN  /\ output_file' = [exists |-> TRUE,
                                   lines |-> output_file.lines \o header \o written.lines]
                /\ run' = [run EXCEPT !.header_written = (header # <<>>),
                                      !.appended = names,
                                      !.exit = IF written.error = "none" THEN "ok"
                                               ELSE written.error,
                                      !.by = IF written.error = "none" THEN ""
                                             ELSE "write"]
                /\ hist' = [hist EXCEPT
                               !.header_lines =
                                   IF header # <<>>
                                   THEN Append(@, Len(output_file.lines) + 1) ELSE @,
                               !.row_source =
                                   @ \o (IF header # <<>> THEN <<"header">> ELSE <<>>)
                                     \o names,
                               !.settled = (written.error = "none"),
                               !.last_appended = names]
       ELSE /\ output_file' = output_file
            /\ run' = [run EXCEPT !.exit = "ok"]
            /\ hist' = [hist EXCEPT !.settled = TRUE, !.last_appended = <<>>]
    /\ UNCHANGED <<content_dir, processed_files, todo, results, scoreVars, parseVars>>

Next == Arrive \/ StartRun \/ ProcessFile \/ WriteResults

Spec == Init /\ [][Next]_vars

(***************************************************************************)
(* Claims about the parser                                                 *)
(***************************************************************************)
\* C5: while a file is read, the derived key keeps the value derived from
\* the first occurrence of the raw key, the occurrence whose raw value is
\* stored under the raw key: no later Headshot or Score line changes
\* `Headshot %` or `Round Differential`.
C5_DerivedKeyKeepsFirstValue ==
    /\ (Has(pdata, "Headshot") /\ Get(pdata, "Headshot").t = "str"
            /\ Get(pdata, "Headshot").s \in DOMAIN PercentLiteral) =>
           Get(pdata, "Headshot %") = PercentLiteral[Get(pdata, "Headshot").s]
    /\ (Has(pdata, "Score") /\ Get(pdata, "Score").t = "str"
            /\ Get(pdata, "Score").s \in {"13-7", "7-13"}) =>
           Get(pdata, "Round Differential")
               = (IF Get(pdata, "Score").s = "13-7" THEN Whole(6) ELSE Whole(-6))

(***************************************************************************)
(* Claims about the runs of main                                           *)
(***************************************************************************)
RunOver == pc = "idle" /\ hist.runs > 0
SkipSetNow == load_existing_results(output_file).keys
Sources == {i \in 1..Len(hist.row_source) : hist.row_source[i] # "header"}

TimesScored(filename) ==
    Cardinality({k \in 1..Len(hist.scored) : hist.scored[k] = filename})

\* C3: after any sequence of runs from a missing table, every file a row
\* was appended for is in the skip-set a later run reads back from the
\* Filename column, so that no such file is scored twice and the table
\* holds no two rows for one file.
C3_AppendedFilesAreSkipped ==
    pc = "idle" =>
        /\ \A i \in Sources : Str(hist.row_source[i]) \in SkipSetNow
        /\ \A i \in Sources : TimesScored(hist.row_source[i]) <= 1
        /\ \A i, j \in Sources : i # j => hist.row_source[i] # hist.row_source[j]

\* C4: a run that follows a completed run, with the directory unchanged
\* in between, has every file name of that run's rows in its skip-set,
\* scores no file and leaves the table as it found it.
C4_RerunChangesNothing ==
    (RunOver /\ run.rerun /\ run.exit = "ok") =>
        /\ \A i \in 1..Len(run.prev_appended) :
               Str(run.prev_appended[i]) \in run.skip_at_start
        /\ run.candidates = <<>>
        /\ output_file = run.table_at_start

\* A Headshot line whose value lacks the parenthesized percentage.
HasBadHeadshot(ls) ==
    \E k \in 1..Len(ls) :
        ls[k].match /\ ls[k].key = "Headshot" /\ ls[k].text \notin DOMAIN PercentLiteral

IsCandidate(filename) == endswith_md(filename) /\ Str(filename) \notin run.skip_at_start

\* C6: when the file loop reaches a not-yet-processed file with a Headshot
\* line that lacks the percentage, the run ends there with the exception:
\* no later file is processed, and the table is left as the run found it,
\* without a row for that file or for the files scored before it; a run
\* whose listing holds such a file never completes or appends.
C6_BadHeadshotAbortsRun ==
    /\ \A i \in 1..Len(run.candidates) :
           HasBadHeadshot(content_dir[run.candidates[i]]) =>
               /\ i = Len(run.candidates)
               /\ pc = "idle"
               /\ run.exit \in {"TypeError", "AttributeError", "ValueError"}
               /\ run.by = "parse"
               /\ run.appended = <<>>
               /\ output_file = run.table_at_start
    /\ (RunOver /\ \E i \in 1..Len(run.listing) :
                       /\ IsCandidate(run.listing[i])
                       /\ HasBadHeadshot(content_dir[run.listing[i]])) =>
           /\ run.exit \notin {"none", "ok"}
           /\ run.by \in {"parse", "score"}
           /\ run.appended = <<>>
           /\ output_file = run.table_at_start

\* A run that scored one file and then met a bad Headshot in the next.
C6_Witness ==
    /\ RunOver
    /\ Len(run.candidates) = 2
    /\ HasBadHeadshot(content_dir[run.candidates[2]])
    /\ results # <<>>
    /\ run.exit = "AttributeError"
    /\ output_file = run.table_at_start

\* C7: a run in which every candidate file parses and scores appends
\* exactly one row for each .md file of the directory that is not in the
\* skip-set, and none for the others, whatever the fields of the records.
C7_OneRowPerNewFile ==
    (RunOver /\ (run.exit = "ok" \/ run.by = "write")) =>
        run.appended = SelectSeq(run.listing, IsCandidate)

\* C8: a run writes the header iff it appends a row and the table had no
\* rows when it started, and then the header holds the field names of the
\* first new result; over all runs from a missing table the header is
\* written once, as the first line.
C8_HeaderWrittenOnce ==
    /\ RunOver =>
           /\ run.header_written <=>
                  (run.appended # <<>> /\ Len(run.table_at_start.lines) <= 1)
           /\ Len(output_file.lines) = Len(run.table_at_start.lines)
                  + Len(run.appended) + (IF run.header_written THEN 1 ELSE 0)
           /\ run.header_written =>
                  output_file.lines[Len(run.table_at_start.lines) + 1]
                      = HeaderLine(Keys(results[1]))
    /\ hist.header_lines = IF output_file.lines = <<>> THEN <<>> ELSE <<1>>
    /\ \A i \in 1..Len(hist.row_source) : hist.row_source[i] = "header" <=> i = 1
    /\ output_file.exists <=> output_file.lines # <<>>

\* A later run appends to a table that holds rows, and writes no header.
C8_Witness ==
    /\ RunOver
    /\ hist.runs >= 2
    /\ Len(run.table_at_start.lines) >= 2
    /\ run.appended # <<>>
    /\ ~run.header_written
    /\ hist.header_lines = <<1>>

====
